---- MODULE Spec2Model ----
(***************************************************************************)
(* transmission_curses: the torrent list view-model (TorrentListWalker),   *)
(* the console widgets that drive it (ConsoleMain, ConsoleToplevel) and    *)
(* the three background tasks of ConsoleToplevel (update_data,             *)
(* track_update_time, handle_callbacks).                                   *)
(*                                                                         *)
(* Time is counted in half seconds: 3.0 s is 6, 0.5 s is 1, 5.0 s is 10.   *)
(* Python's None is the number 0 where an identifier is expected           *)
(* (torrent ids start at 1).                                               *)
(***************************************************************************)
EXTENDS Integers, Sequences, FiniteSets, TLC

(* ------------------------------ bounds -------------------------------- *)

\* torrent ids are 1..MaxId
MaxId == 2
\* longest raw torrent list handed to TorrentListWalker.set_entries
MaxLen == 2

(* ------------------------------- data --------------------------------- *)

None == 0
Ids == 1..MaxId
Names == {"a", "b"}
Sizes == {3, 5}

\* one torrent of a torrent-get answer, cut to the fields the model sorts by
TorrentRecs == [id : Ids, name : Names, sizeWhenDone : Sizes]

\* str comparison of the one-letter names
NameRank(n) == IF n = "a" THEN 1 ELSE 2

\* the sort keys of SortControlWindow.sort_orders the model keeps: two that
\* get_torrents_fields requests and one ('seeders') that it does not
SortKeys == {"name", "sizeWhenDone", "seeders"}

\* te[key] raises KeyError when the record has no such field
HasField(te, key) == key \in DOMAIN te

\* te[key], as a number that compares the way the Python value does
KeyVal(te, key) == IF key = "name" THEN NameRank(te[key]) ELSE te[key]

SeqsUpTo(S, n) == UNION {[1..k -> S] : k \in 0..n}
RawLists == SeqsUpTo(TorrentRecs, MaxLen)

Range(s) == {s[i] : i \in 1..Len(s)}
IsIn(x, s) == \E i \in 1..Len(s) : s[i] = x
NoDup(s) == \A i, j \in 1..Len(s) : i # j => s[i] # s[j]

(* -------------------------- TorrentListWalker ------------------------- *)

\* keys of { i['id']: ... for i in tl }, in insertion order: a repeated id
\* keeps the place of its first occurrence
RECURSIVE DictKeys(_)
DictKeys(tl) ==
    IF tl = <<>> THEN <<>>
    ELSE LET front == DictKeys(SubSeq(tl, 1, Len(tl) - 1))
             k == tl[Len(tl)].id
         IN IF IsIn(k, front) THEN front ELSE Append(front, k)

\* the value of { i['id']: ... for i in tl } at k: the last record with that id
DictVal(tl, k) ==
    LET idx == {i \in 1..Len(tl) : tl[i].id = k}
    IN tl[CHOOSE i \in idx : \A j \in idx : j <= i]

MakeEntries(tl) == [k \in Range(DictKeys(tl)) |-> DictVal(tl, k)]

\* x goes before y in a pass of list.sort(key=..., reverse=rev)
Before(ents, key, rev, x, y) ==
    IF rev THEN KeyVal(ents[x], key) > KeyVal(ents[y], key)
    ELSE KeyVal(ents[x], key) < KeyVal(ents[y], key)

\* x put into the sorted sequence s behind every element it does not go before
RECURSIVE InsertSorted(_, _, _, _, _)
InsertSorted(ents, key, rev, s, x) ==
    IF s = <<>> THEN <<x>>
    ELSE IF Before(ents, key, rev, x, s[Len(s)])
         THEN Append(InsertSorted(ents, key, rev, SubSeq(s, 1, Len(s) - 1), x),
                     s[Len(s)])
         ELSE Append(s, x)

\* a mutant of SortPass: reverse=True as 'sort ascending, then reverse the list'
RECURSIVE SortPassAsc(_, _, _)
SortPassAsc(ents, key, ord) ==
    IF ord = <<>> THEN <<>>
    ELSE InsertSorted(ents, key, FALSE,
                      SortPassAsc(ents, key, SubSeq(ord, 1, Len(ord) - 1)),
                      ord[Len(ord)])
Reversed(s) == [i \in 1..Len(s) |-> s[Len(s) + 1 - i]]
SortPassFlip(ents, key, rev, ord) ==
    IF rev THEN Reversed(SortPassAsc(ents, key, ord))
    ELSE SortPassAsc(ents, key, ord)

\* a mutant of SortPass: a sort that is not stable, rows equal under the key
\* coming out in the reverse of the order they went in
SortPassTiesFlipped(ents, key, rev, ord) ==
    IF rev THEN Reversed(SortPassAsc(ents, key, ord))
    ELSE SortPassAsc(ents, key, Reversed(ord))

\* self.order.sort(key=lambda x: self.entries[x][0][key], reverse=rev):
\* stable, also when reversed
RECURSIVE SortPass(_, _, _, _)
SortPass(ents, key, rev, ord) ==
    IF ord = <<>> THEN <<>>
    ELSE InsertSorted(ents, key, rev,
                      SortPass(ents, key, rev, SubSeq(ord, 1, Len(ord) - 1)),
                      ord[Len(ord)])

\* the key function of a pass raises KeyError: list.sort computes the key of
\* every element (of one element too) before it moves any
PassRaises(ents, key, ord) == \E i \in 1..Len(ord) : ~HasField(ents[ord[i]], key)

\* a mutant of DoSort: one pass, by the newest entry, a descending pass being
\* an ascending sort followed by list.reverse()
DoSortNewestReversing(ents, srts, ord) ==
    IF srts = <<>> THEN [order |-> ord, raised |-> FALSE]
    ELSE IF PassRaises(ents, srts[Len(srts)][1], ord)
         THEN [order |-> ord, raised |-> TRUE]
         ELSE [order |-> SortPassFlip(ents, srts[Len(srts)][1],
                                      srts[Len(srts)][2], ord),
               raised |-> FALSE]

\* _do_sort: one pass per entry of self.sorts, oldest first; a pass that
\* raises leaves the list as the passes before it made it
RECURSIVE DoSort(_, _, _)
DoSort(ents, srts, ord) ==
    IF srts = <<>> THEN [order |-> ord, raised |-> FALSE]
    ELSE IF PassRaises(ents, srts[1][1], ord)
         THEN [order |-> ord, raised |-> TRUE]
         ELSE DoSort(ents, Tail(srts),
                     SortPass(ents, srts[1][1], srts[1][2], ord))

(* ------------------------------- state -------------------------------- *)

VARIABLES
    entries,       \* TorrentListWalker.entries: id -> torrent record
    order,         \* TorrentListWalker.order: list of ids
    focus,         \* TorrentListWalker.focus: id or None
    sorts,         \* TorrentListWalker.sorts: list of (key, reverse)
    detail_shown,  \* ConsoleMain.detail_shown
    main_w,        \* ConsoleMain._w: the list view or a TorrentDetailWindow
    fr_focus,      \* ConsoleToplevel.fr.focus_position
    popup_open,    \* ConsoleToplevel.popup_open
    q_count,       \* ConsoleToplevel.q_count
    q_since,       \* current_time() - self.q_time, or NoTime for q_time None
    hdr,           \* ConsoleHeader: the version shown ("" before the first poll)
    ftr,           \* ConsoleFooter: the count, duration and rate shown
    ftr_time,      \* RatesWidget.time_since_update
    rates_w,       \* RatesWidget._w: "cols" (the rates) or "delay_msg"
    trk_left,      \* track_update_time: time left of its trio.sleep(0.5)
    trk_pc,        \* track_update_time: "run", or "cancelled"
    since_it,      \* update_data: current_time() - it, counted up to PollPeriod
    since_update,  \* current_time() - self.last_update, up to StaleThreshold
    upd_pc,        \* update_data: where the task is suspended
    upd_r,         \* update_data: the local r
    upd_ses,       \* update_data: the local ses
    cb_queue,      \* the memory channel callback_send / callback_recv
    cb_pc,         \* handle_callbacks: where the task is suspended
    cb_item,       \* handle_callbacks: the (func, cb) it is working on
    app,           \* "running", "exited" (ExitMainLoop) or "crashed"
    last,          \* history: the last walker call and how it ended
    nsub,          \* history: work items submitted so far
    cb_log,        \* history: the work items whose continuation was invoked
    fault,         \* history: what raised, if anything did
    sess_id,       \* TransmissionConnection.sess_id, "" for None
    rpc,           \* send_request: the call each task has in it, if any
    q_log          \* history: the 'q' presses so far, and how long ago the
                   \* last four of them were

walker == <<entries, order, focus, sorts>>
mainv == <<detail_shown, main_w>>
topv == <<fr_focus, popup_open, q_count, q_since>>
bars == <<hdr, ftr>>
stale == <<ftr_time, trk_left, rates_w, trk_pc>>
clocks == <<since_it, since_update>>
pollv == <<upd_pc, upd_r, upd_ses>>
bridge == <<cb_queue, cb_pc, cb_item>>
hist == <<last, nsub, cb_log, fault>>
rpcv == <<sess_id, rpc>>
vars == <<entries, order, focus, sorts, detail_shown, main_w, fr_focus,
          popup_open, q_count, q_since, hdr, ftr, ftr_time, rates_w, trk_left,
          trk_pc,
          since_it, since_update, upd_pc, upd_r, upd_ses, cb_queue, cb_pc,
          cb_item, app, last, nsub, cb_log, fault, sess_id, rpc, q_log>>

\* the record kept of the last call or step: its name, whether it raised, the
\* walker focus when it started, a note, and the arguments of a set_sort;
\* the ids, in the order they came, of the list last given to set_entries;
\* and the order shown before each of the last two uses of the popup's
\* Reverse, when nothing but Reverse has sorted or set the list since
NoteArg(op, raised, note, arg) ==
    [op |-> op, raised |-> raised, focus0 |-> focus, note |-> note, arg |-> arg,
     raw |-> last.raw, tog |-> last.tog]
Note(op, raised, note) == NoteArg(op, raised, note, <<>>)
Call(op, raised) == Note(op, raised, "")

(* ------------------------ bounds and constants ------------------------ *)

\* work items submitted to the bridge in one run
MaxSubmit == 3

\* update_data: trio.sleep_until(it + 3.0)
PollPeriod == 6
\* track_update_time: trio.sleep(0.5)
TickPeriod == 1
\* RatesWidget.update_time: time_since_update >= 5
StaleThreshold == 10
\* ConsoleToplevel.keypress: now - self.q_time > 5.0, and q_count >= 5
QuitWindow == 10
QuitPresses == 5

NoTime == -1

\* the torrents the polled daemon can report, and the answers of the three
\* calls of a round
Catalog == {[id |-> 1, name |-> "b", sizeWhenDone |-> 5],
            [id |-> 2, name |-> "a", sizeWhenDone |-> 5]}
PollLists == SeqsUpTo(Catalog, MaxLen)
Sessions == {"2.94", "3.00"}
Stats == {7}

\* the answers get_torrent_details can give for torrent tid: with the detail
\* fields, or without 'files', which display_overview reads
DetailAnswers(tid) == {[id |-> tid, files |-> <<>>], [id |-> tid]}

\* win names the window object (0 the list view), tid the torrent of a
\* detail window, ref the refresh whose data set_data last gave it (0: none)
View == [win |-> 0, tid |-> 0, ref |-> 0, mode |-> "", scroll |-> 0]
NoItem == [kind |-> "none", tid |-> 0, win |-> 0, seq |-> 0]

(* ------------------------ TorrentListWalker ---------------------------- *)

\* TorrentListWalker.__init__
WalkerInit ==
    /\ entries = <<>>
    /\ order = <<>>
    /\ sorts = <<<<"name", FALSE>>>>
    /\ focus = None

\* a mutant of NewFocus: the focus is reset on every set_entries
NewFocusReset(ord, foc) == IF Len(ord) = 0 THEN None ELSE ord[1]

\* a mutant of NewFocus: a focus that is still in the list moves on a row
NewFocusNext(ord, foc) ==
    IF Len(ord) = 0 THEN None
    ELSE IF ~IsIn(foc, ord) THEN ord[1]
    ELSE ord[((CHOOSE i \in 1..Len(ord) : ord[i] = foc) % Len(ord)) + 1]

\* set_entries, lines 168-171: the focus after the sort
NewFocus(ord, foc) ==
    IF Len(ord) = 0 THEN None
    ELSE IF ~IsIn(foc, ord) THEN ord[1]
    ELSE foc

\* a mutant of EntriesOrder: order takes one id per record of the raw list
RECURSIVE ListIds(_)
ListIds(tl) == IF tl = <<>> THEN <<>> ELSE <<tl[1].id>> \o ListIds(Tail(tl))

\* set_entries, line 165: list(self.entries.keys())
EntriesOrder(tl) == DictKeys(tl)

\* TorrentListWalker.set_entries(tl): the walker it leaves. When _do_sort
\* raises, entries and order are already replaced and focus is as it was
SetEntriesOf(ents, res) ==
    [entries |-> ents, order |-> res.order, raised |-> res.raised,
     focus |-> IF res.raised THEN focus ELSE NewFocus(res.order, focus)]
SetEntries(tl) ==
    LET ents == MakeEntries(tl)
    IN SetEntriesOf(ents, DoSort(ents, sorts, EntriesOrder(tl)))

\* a mutant of PushSort: the eviction loop empties a history longer than 2
PushSortDrains(srts, se) ==
    IF Len(Append(srts, se)) > 2 THEN <<>> ELSE Append(srts, se)

\* a mutant of PushSort: eviction from the back of the history
PushSortBack(srts, se) == IF Len(srts) >= 2 THEN <<srts[1], se>> ELSE Append(srts, se)

\* set_sort, lines 179-181: append, then pop(0) while longer than 2
PushSort(srts, se) ==
    LET a == Append(srts, se)
    IN IF Len(a) > 2 THEN SubSeq(a, Len(a) - 1, Len(a)) ELSE a

\* the sort_key and sort_reversed properties
sort_key == sorts[Len(sorts)][1]
sort_reversed == sorts[Len(sorts)][2]

\* an optional argument: Omitted for Python's None, Given(v) for a value
Omitted == <<>>
Given(v) == <<v>>

\* a mutant of SortEntry: an omitted reverse means ascending
SortEntryAscending(key, rev) ==
    <<IF key = Omitted THEN sort_key ELSE key[1],
      IF rev = Omitted THEN FALSE ELSE rev[1]>>

\* set_sort, lines 177-178: the entry pushed, an omitted argument taken from
\* the newest entry of the history
SortEntry(key, rev) ==
    <<IF key = Omitted THEN sort_key ELSE key[1],
      IF rev = Omitted THEN sort_reversed ELSE rev[1]>>

\* TorrentListWalker.set_sort(key, rev): the history and order it leaves
SetSort(key, rev) ==
    LET se == SortEntry(key, rev)
        srts == PushSort(sorts, se)
        res == DoSort(entries, srts, order)
    IN [sorts |-> srts, order |-> res.order, raised |-> res.raised]

\* whether a set_sort has an entry to evict from the front of the history
Evicts == IF Len(sorts) >= 2 THEN "evicted" ELSE ""

\* TorrentListWalker.set_focus(position) raises IndexError, changing nothing,
\* when position is not in order
SetFocusRaises(position) == ~IsIn(position, order)

\* prev_position / next_position: the neighbour, or None for IndexError
IndexOf(x, s) == CHOOSE i \in 1..Len(s) : s[i] = x
PrevPosition(position) ==
    IF ~IsIn(position, order) \/ IndexOf(position, order) = 1 THEN None
    ELSE order[IndexOf(position, order) - 1]
NextPosition(position) ==
    IF ~IsIn(position, order) \/ IndexOf(position, order) = Len(order) THEN None
    ELSE order[IndexOf(position, order) + 1]

(* ------------------------------ Init ----------------------------------- *)

(* --------------------- rpc: TransmissionConnection --------------------- *)

\* the tasks that call the connection: update_data, and handle_callbacks
\* through get_torrent_details. Each can be inside send_request while the
\* other is
Callers == {"update_data", "handle_callbacks"}
Methods == {"torrent-get", "session-get", "session-stats"}

\* what the daemon can answer to a post: 200 with a JSON body whose result is
\* 'success' or the reason of a failure, 409 with a session id in the header
\* X-Transmission-Session-Id, or a server error
NoSid == ""
Sids == {"s1", "s2"}
NoData == "none"
Responses ==
    {[status |-> 200, result |-> res, sid |-> NoSid, arguments |-> "payload"] :
        res \in {"success", "method name not recognized"}}
    \cup {[status |-> 409, result |-> "", sid |-> sid, arguments |-> NoData] :
             sid \in Sids}
    \cup {[status |-> 500, result |-> "", sid |-> NoSid, arguments |-> NoData]}
NoResponse == [status |-> 0, result |-> "", sid |-> NoSid, arguments |-> NoData]

\* how a call ended: with data returned, or with an exception raised
NoOutcome == [kind |-> "none", msg |-> "", return_dict |-> NoResponse,
              data |-> NoData]

\* a task outside send_request
NoCall == [pc |-> "idle", method |-> "", hdr |-> NoSid, posts |-> 0,
           r |-> NoResponse, out |-> NoOutcome]

\* a mutant of RaiseForResult: no result raises
RaiseForResultNever(rv) == FALSE

\* raise_for_result(rv) raises unless rv['result'] == 'success'
RaiseForResult(rv) == rv.result # "success"

\* RPCError("Error: " + rv['result'], rv=rv)
RPCError(rv) == [kind |-> "RPCError", msg |-> "Error: " \o rv.result,
                 return_dict |-> rv, data |-> NoData]

\* r.raise_for_status() raises BadStatus for a status of 400 and above
RaiseForStatus(r) == r.status >= 400
BadStatus(r) == [kind |-> "BadStatus", msg |-> "", return_dict |-> NoResponse,
                 data |-> NoData]

\* a mutant of Retries: a 409 is retried whether or not the post was a retry
RetriesAlways(r, retry) == r.status = 409

\* r.status_code == 409 and not retry
Retries(r, retry) == r.status = 409 /\ ~retry

\* lines 40-42: the header of a post carries self.sess_id when it is set
Header == IF sess_id # NoSid THEN sess_id ELSE NoSid

\* return rv['arguments'] of get_session and get_session_stats, and
\* rv['arguments']['torrents'] of get_torrents
Returned(rv) == [kind |-> "data", msg |-> "", return_dict |-> NoResponse,
                 data |-> rv.arguments]

Min(a, b) == IF a < b THEN a ELSE b

NoFooter == [count |-> -1, rate |-> 0]

\* ConsoleToplevel.__init__ (with ConsoleMain, ConsoleHeader, ConsoleFooter
\* and TorrentListWalker built by it), the three tasks started and not yet run
Init ==
    /\ WalkerInit
    /\ detail_shown = FALSE
    /\ main_w = View
    /\ fr_focus = "header"
    /\ popup_open = FALSE
    /\ q_count = 0
    /\ q_since = NoTime
    /\ hdr = ""
    /\ ftr = NoFooter
    /\ ftr_time = 0
    /\ rates_w = "cols"
    /\ trk_left = 0
    /\ trk_pc = "run"
    /\ since_it = 0
    /\ since_update = 0
    /\ upd_pc = "start"
    /\ upd_r = <<>>
    /\ upd_ses = ""
    /\ cb_queue = <<>>
    /\ cb_pc = "recv"
    /\ cb_item = NoItem
    /\ app = "running"
    /\ last = [op |-> "init", raised |-> FALSE, focus0 |-> None, note |-> "",
               arg |-> <<>>, raw |-> <<>>, tog |-> <<>>]
    /\ nsub = 0
    /\ cb_log = <<>>
    /\ fault = "none"
    /\ sess_id = NoSid
    /\ rpc = [c \in Callers |-> NoCall]
    /\ q_log = [n |-> 0, ages |-> <<>>]

(* ------------- the walker driven through its public methods ------------ *)

KeyArgs == {Given(k) : k \in SortKeys} \cup {Omitted}
RevArgs == {Given(b) : b \in BOOLEAN} \cup {Omitted}

notwalker == <<detail_shown, main_w, fr_focus, popup_open, q_count, q_since,
               hdr, ftr, ftr_time, rates_w, trk_left, trk_pc, since_it,
               since_update, upd_pc,
               upd_r, upd_ses, cb_queue, cb_pc, cb_item, app, nsub,
               cb_log, fault>>

\* tl makes the dict the set_entries before it made, keys in the same order
SameAgain(tl) ==
    /\ last.op = "set_entries"
    /\ ~last.raised
    /\ MakeEntries(tl) = entries
    /\ DictKeys(tl) = last.arg

\* set_entries(tl) for one of lists
ListSetEntriesOf(lists) ==
    \E tl \in lists :
        \E res \in {SetEntries(tl)} :
           /\ entries' = res.entries
           /\ order' = res.order
           /\ focus' = res.focus
           /\ last' = [NoteArg("set_entries", res.raised,
                                IF SameAgain(tl) THEN "same list again"
                                ELSE IF NoDup(ListIds(tl)) THEN ""
                                ELSE "repeated id",
                                DictKeys(tl))
                          EXCEPT !.raw = DictKeys(tl), !.tog = <<>>]
           /\ UNCHANGED <<rpcv, q_log, sorts, notwalker>>

ListSetEntries == ListSetEntriesOf(RawLists)

ListSetSort ==
    \E key \in KeyArgs, rev \in RevArgs :
        \E res \in {SetSort(key, rev)} :
           /\ sorts' = res.sorts
           /\ order' = res.order
           /\ last' = [NoteArg("set_sort", res.raised, Evicts, <<key, rev>>)
                          EXCEPT !.tog = <<>>]
           /\ UNCHANGED <<rpcv, q_log, entries, focus, notwalker>>

ListSetFocus ==
    \E position \in Ids :
        /\ focus' = IF SetFocusRaises(position) THEN focus ELSE position
        /\ last' = Call("set_focus", SetFocusRaises(position))
        /\ UNCHANGED <<rpcv, q_log, entries, order, sorts, notwalker>>

ListNext == ListSetEntries \/ ListSetSort \/ ListSetFocus

SpecList == Init /\ [][ListNext]_vars

\* the walker over a daemon with three torrents: 1 (b, 5), 2 (a, 5) and
\* 3 (a, 3). set_entries is given any of them, in any order, each once
ExampleList == <<[id |-> 1, name |-> "b", sizeWhenDone |-> 5],
                 [id |-> 2, name |-> "a", sizeWhenDone |-> 5],
                 [id |-> 3, name |-> "a", sizeWhenDone |-> 3]>>
ExampleLists ==
    {tl \in SeqsUpTo(Range(ExampleList), Len(ExampleList)) : NoDup(tl)}
ExampleNext == ListSetEntriesOf(ExampleLists) \/ ListSetSort

SpecExample == Init /\ [][ExampleNext]_vars

(* ------------------- ConsoleMain.render_torrents ----------------------- *)

\* jump_to_top (called by jump_if_unfocused when the frame's focus is not
\* 'body'): the walker focus it leaves, given the walker after set_entries
JumpIfUnfocused(ents, ord, foc) ==
    IF fr_focus # "body" /\ Cardinality(DOMAIN ents) > 0 THEN ord[1] ELSE foc

\* a mutant of RenderFocus: render_torrents without jump_if_unfocused
RenderFocusNoJump(res) == res.focus

\* a mutant of RenderFocus: the jump is made wherever the frame's focus is
RenderFocusAlways(res) ==
    IF Cardinality(DOMAIN res.entries) > 0 THEN res.order[1] ELSE res.focus

\* render_torrents, lines 123-124: the walker focus after set_entries and
\* jump_if_unfocused
RenderFocus(res) == JumpIfUnfocused(res.entries, res.order, res.focus)

\* a mutant of RefreshItem: the fetch is for the torrent under the list cursor
RefreshItemFocused == [kind |-> "refresh", tid |-> focus, win |-> main_w.win,
                       seq |-> nsub + 1]

\* the work item render_torrents submits for the open detail window
RefreshItem == [kind |-> "refresh", tid |-> main_w.tid, win |-> main_w.win,
                seq |-> nsub + 1]

\* history: the number of rounds that have failed in a row, counted to MaxFails
MaxFails == 2
FailedBefore == IF last.op = "round failed" THEN last.arg[1] ELSE 0
FailedNow == IF FailedBefore < MaxFails THEN FailedBefore + 1 ELSE MaxFails

\* a mutant of WouldBlock: a channel without buffer (max_buffer_size 0) takes
\* an item only when the receiver is waiting for one
WouldBlockUnbuffered(queue) == cb_pc # "recv" \/ queue # <<>>

\* send_nowait raises trio.WouldBlock when the buffer is full, that is when
\* len(buffer) >= max_buffer_size: the channel is made by
\* open_memory_channel(inf)
WouldBlock(queue) == FALSE

\* call_async_function(func, callback): the queue it leaves, and whether
\* send_nowait raised
CallAsyncFunction(queue, item) ==
    IF WouldBlock(queue) THEN [queue |-> queue, raised |-> TRUE]
    ELSE [queue |-> Append(queue, item), raised |-> FALSE]

\* a mutant of Land: the task is suspended once set_entries has replaced the
\* records, before order and focus follow
LandTorn(r, ses, stats) ==
    /\ app = "running"
    /\ since_update' = 0
    /\ entries' = MakeEntries(r)
    /\ last' = Call("render_torrents", FALSE)
    /\ UNCHANGED <<rpcv, q_log, order, focus, sorts, mainv, topv, bars, stale, since_it,
                   bridge, app, nsub, cb_log, fault>>

\* a mutant of Land: a round puts the sort history back to that of a new walker
LandResetsSort(r, ses, stats) ==
    /\ app = "running"
    /\ since_update' = 0
    /\ entries' = MakeEntries(r)
    /\ sorts' = <<<<"name", FALSE>>>>
    /\ order' = DoSort(MakeEntries(r), <<<<"name", FALSE>>>>,
                       EntriesOrder(r)).order
    /\ focus' = JumpIfUnfocused(entries', order', NewFocus(order', focus))
    /\ ftr' = [count |-> Len(r), rate |-> stats]
    /\ hdr' = ses
    /\ last' = Call("render_torrents", FALSE)
    /\ UNCHANGED <<rpcv, q_log, mainv, topv, stale, since_it, bridge, app, nsub, cb_log,
                   fault>>

\* update_data, lines 432-437: the step from the return of the third call to
\* the sleep. render_torrents(r) raises when set_entries does, which ends the
\* task and, through the nursery, the application
Land(r, ses, stats) ==
    \E res \in {SetEntries(r)} :
       /\ app = "running"
       /\ (detail_shown /\ ~res.raised) => nsub < MaxSubmit
       /\ since_update' = 0
       /\ entries' = res.entries
       /\ order' = res.order
       /\ focus' = IF res.raised THEN res.focus ELSE RenderFocus(res)
       /\ \E sub \in {IF detail_shown /\ ~res.raised
                       THEN CallAsyncFunction(cb_queue, RefreshItem)
                       ELSE [queue |-> cb_queue, raised |-> res.raised]} :
             /\ cb_queue' = sub.queue
             /\ nsub' = IF Len(sub.queue) > Len(cb_queue) THEN nsub + 1
                        ELSE nsub
             /\ ftr' = IF sub.raised THEN ftr
                       ELSE [count |-> Len(r), rate |-> stats]
             /\ hdr' = IF sub.raised THEN hdr ELSE ses
             /\ app' = IF sub.raised THEN "crashed" ELSE app
             /\ fault' = IF res.raised THEN "render"
                         ELSE IF sub.raised THEN "submit" ELSE fault
             /\ last' = [NoteArg("render_torrents", sub.raised, "",
                                 IF FailedBefore > 0 THEN <<FailedBefore>>
                                 ELSE <<>>)
                           EXCEPT !.raw = DictKeys(r), !.tog = <<>>]
       /\ UNCHANGED <<rpcv, q_log, sorts, detail_shown, main_w, topv, stale, since_it,
                      cb_pc, cb_item, cb_log>>

(* --------------------- ConsoleToplevel.update_data --------------------- *)

InCall == upd_pc \in {"get_torrents", "get_session", "get_session_stats"}

\* the task reaches its first await
PollBegin ==
    /\ app = "running"
    /\ upd_pc = "start"
    /\ upd_pc' = "get_torrents"
    /\ since_it' = 0
    /\ UNCHANGED <<rpcv, q_log, walker, mainv, topv, bars, stale, since_update, upd_r,
                   upd_ses, bridge, app, hist>>

\* a mutant of PollGetTorrents: the list is shown as soon as it arrives
PollGetTorrentsEager ==
    /\ app = "running"
    /\ upd_pc = "get_torrents"
    /\ \E r \in PollLists :
          /\ upd_r' = r
          /\ entries' = SetEntries(r).entries
          /\ order' = SetEntries(r).order
          /\ focus' = RenderFocus(SetEntries(r))
    /\ upd_pc' = "get_session"
    /\ UNCHANGED <<rpcv, q_log, sorts, mainv, topv, bars, stale, clocks, upd_ses, bridge,
                   app, hist>>

\* r = await t.get_torrents(), the daemon answering with one of lists
PollGetTorrentsOf(lists) ==
    /\ app = "running"
    /\ upd_pc = "get_torrents"
    /\ \E r \in lists : upd_r' = r
    /\ upd_pc' = "get_session"
    /\ UNCHANGED <<rpcv, q_log, walker, mainv, topv, bars, stale, clocks, upd_ses, bridge,
                   app, hist>>

\* r = await t.get_torrents()
PollGetTorrents == PollGetTorrentsOf(PollLists)

\* ses = await t.get_session(), the daemon answering with one of sess
PollGetSessionOf(sess) ==
    /\ app = "running"
    /\ upd_pc = "get_session"
    /\ \E ses \in sess : upd_ses' = ses
    /\ upd_pc' = "get_session_stats"
    /\ UNCHANGED <<rpcv, q_log, walker, mainv, topv, bars, stale, clocks, upd_r, bridge,
                   app, hist>>

\* ses = await t.get_session()
PollGetSession == PollGetSessionOf(Sessions)

\* stats = await t.get_session_stats(), and the rest of the round
PollGetStats ==
    /\ upd_pc = "get_session_stats"
    /\ \E stats \in Stats : Land(upd_r, upd_ses, stats)
    /\ upd_pc' = IF SetEntries(upd_r).raised THEN "dead" ELSE "sleep"
    /\ upd_r' = <<>>
    /\ upd_ses' = ""

\* what a failing round had fetched: a list unlike the one shown, or nothing
\* that would show
Fetched ==
    IF upd_pc # "get_torrents" /\ MakeEntries(upd_r) # entries THEN "new list"
    ELSE "nothing new"

\* a mutant of PollFail: the failed round waits out the period like a
\* successful one
PollFailSleep ==
    /\ app = "running"
    /\ InCall
    /\ upd_pc' = "sleep"
    /\ upd_r' = <<>>
    /\ upd_ses' = ""
    /\ UNCHANGED <<rpcv, q_log, walker, mainv, topv, bars, stale, clocks, bridge, app, hist>>

\* a mutant of PollFail: a failed round takes the time like a successful one
PollFailResets ==
    /\ app = "running"
    /\ InCall
    /\ upd_pc' = "get_torrents"
    /\ upd_r' = <<>>
    /\ upd_ses' = ""
    /\ since_it' = 0
    /\ since_update' = 0
    /\ last' = NoteArg("round failed", TRUE, Fetched, <<FailedNow>>)
    /\ UNCHANGED <<rpcv, q_log, walker, mainv, topv, bars, stale, bridge, app,
                   nsub, cb_log, fault>>

\* a mutant of PollFail: the exception of a call leaves update_data, and the
\* nursery with it
PollFailDies ==
    /\ app = "running"
    /\ InCall
    /\ upd_pc' = "dead"
    /\ upd_r' = <<>>
    /\ upd_ses' = ""
    /\ app' = "crashed"
    /\ fault' = "poll"
    /\ last' = NoteArg("round failed", TRUE, Fetched, <<FailedNow>>)
    /\ UNCHANGED <<rpcv, q_log, walker, mainv, topv, bars, stale, clocks, bridge,
                   nsub, cb_log>>

\* one of the three calls raises: except Exception: continue, which takes the
\* task straight to it = trio.current_time() and the next get_torrents()
PollFail ==
    /\ app = "running"
    /\ InCall
    /\ upd_pc' = "get_torrents"
    /\ upd_r' = <<>>
    /\ upd_ses' = ""
    /\ since_it' = 0
    /\ last' = NoteArg("round failed", TRUE, Fetched, <<FailedNow>>)
    /\ UNCHANGED <<rpcv, q_log, walker, mainv, topv, bars, stale, since_update, bridge, app,
                   nsub, cb_log, fault>>

\* trio.sleep_until(it + 3.0) returns and the next round starts
PollWake ==
    /\ app = "running"
    /\ upd_pc = "sleep"
    /\ since_it >= PollPeriod
    /\ upd_pc' = "get_torrents"
    /\ since_it' = 0
    /\ UNCHANGED <<rpcv, q_log, walker, mainv, topv, bars, stale, since_update, upd_r,
                   upd_ses, bridge, app, hist>>

(* ------------------ ConsoleToplevel.track_update_time ------------------ *)

\* a mutant of RatesShown: the delay message only past the threshold
RatesShownStrict(time) == IF time > StaleThreshold THEN "delay_msg" ELSE "cols"

\* RatesWidget.update_time, lines 63-66: the widget shown for an elapsed time
RatesShown(time) == IF time >= StaleThreshold THEN "delay_msg" ELSE "cols"

\* a mutant of TrackTick: no tick while update_data is in a remote call
TrackTickBlocked ==
    /\ app = "running"
    /\ ~InCall
    /\ trk_left = 0
    /\ ftr_time' = since_update
    /\ rates_w' = RatesShown(since_update)
    /\ trk_left' = TickPeriod
    /\ trk_pc' = trk_pc
    /\ UNCHANGED <<rpcv, q_log, walker, mainv, topv, bars, clocks, pollv, bridge, app, hist>>

\* self.ftr.update_time(ct - self.last_update), then trio.sleep(0.5)
TrackTick ==
    /\ app = "running"
    /\ trk_left = 0
    /\ ftr_time' = since_update
    /\ rates_w' = RatesShown(since_update)
    /\ trk_left' = TickPeriod
    /\ trk_pc' = trk_pc
    /\ UNCHANGED <<rpcv, q_log, walker, mainv, topv, bars, clocks, pollv, bridge, app, hist>>

\* half a second passes. A sleep returns no sooner than asked, and may
\* return later: time is not held back for a task whose sleep is over
Tick ==
    /\ app = "running"
    /\ trk_left' = IF trk_left > 0 THEN trk_left - 1 ELSE 0
    /\ since_it' = Min(since_it + 1, PollPeriod)
    /\ since_update' = Min(since_update + 1, StaleThreshold + 1)
    /\ q_since' = IF q_since = NoTime THEN NoTime
                  ELSE Min(q_since + 1, QuitWindow + 1)
    /\ q_log' = [q_log EXCEPT !.ages = [i \in 1..Len(q_log.ages) |->
                                           Min(q_log.ages[i] + 1,
                                               QuitWindow + 1)]]
    /\ UNCHANGED <<rpcv, walker, mainv, fr_focus, popup_open, q_count, bars,
                   ftr_time, rates_w, trk_pc, pollv, bridge, app, hist>>

PollNext ==
    \/ PollBegin
    \/ PollGetTorrents
    \/ PollGetSession
    \/ PollGetStats
    \/ PollFail
    \/ PollWake
    \/ Tick

SpecPoll == Init /\ [][PollNext]_vars

\* the polling loop and the staleness tick together, against a daemon with
\* one torrent and one version. Time passes (Tick) and a task whose sleep
\* is over is scheduled (TrackTick): both weakly fair. Nothing makes a
\* remote call return
StaleLists == {<<[id |-> 1, name |-> "b", sizeWhenDone |-> 5]>>}
StaleSessions == {"2.94"}
StaleNext ==
    \/ PollBegin
    \/ PollGetTorrentsOf(StaleLists)
    \/ PollGetSessionOf(StaleSessions)
    \/ PollGetStats
    \/ PollFail
    \/ PollWake
    \/ TrackTick
    \/ Tick

SpecStale ==
    Init /\ [][StaleNext]_vars /\ WF_vars(Tick) /\ WF_vars(TrackTick)

(* ----------- ConsoleToplevel.call_async_function / handle_callbacks ----- *)

\* a mutant of CbRecv: the newest work item is taken first
CbRecvNewest ==
    /\ app = "running"
    /\ cb_pc = "recv"
    /\ cb_queue # <<>>
    /\ cb_item' = cb_queue[Len(cb_queue)]
    /\ cb_queue' = SubSeq(cb_queue, 1, Len(cb_queue) - 1)
    /\ cb_pc' = "await"
    /\ UNCHANGED <<rpcv, q_log, walker, mainv, topv, bars, stale, clocks, pollv, app, hist>>

\* a mutant of CbRecv: the next item is started while one is awaited
CbRecvEager ==
    /\ app = "running"
    /\ cb_pc \in {"recv", "await"}
    /\ cb_queue # <<>>
    /\ cb_item' = Head(cb_queue)
    /\ cb_queue' = Tail(cb_queue)
    /\ cb_pc' = "await"
    /\ UNCHANGED <<rpcv, q_log, walker, mainv, topv, bars, stale, clocks, pollv, app, hist>>

\* async for func, cb in self.callback_recv; co = func(); the task is then
\* suspended in rv = await co
CbRecv ==
    /\ app = "running"
    /\ cb_pc = "recv"
    /\ cb_queue # <<>>
    /\ cb_item' = Head(cb_queue)
    /\ cb_queue' = Tail(cb_queue)
    /\ cb_pc' = "await"
    /\ UNCHANGED <<rpcv, q_log, walker, mainv, topv, bars, stale, clocks, pollv, app, hist>>

\* the tabs of a detail window (window_keys); a tab is chosen with its
\* letter in lower case
Tabs == {"O", "F", "e", "R"}

\* display_overview, display_files and display_raw build the text of their
\* tab; display_peers, display_trackers and display_chunks are pass
HasDisplay(mode) == mode \in {"O", "F", "R"}

\* the continuation cb(te) raises: TorrentDetailWindow(te) and set_data(te)
\* of a window on its first tab build DetailWindowInfo's overview, which
\* reads te['files']
CbContinuationRaises(te) == ~HasField(te, "files")

\* a mutant of RefreshTarget: the continuation looks up the window shown when
\* it runs
RefreshTargetCurrent(item) == main_w.win

\* render_torrents, lines 125-131: cb closes over dwin, the window shown when
\* the refresh was submitted, and calls dwin.set_data(te)
RefreshTarget(item) == item.win

\* a mutant of SetMode: the display function is called without upd, so the
\* new text starts at the top
SetModeFresh(w, mode) ==
    [w EXCEPT !.mode = mode, !.scroll = IF HasDisplay(mode) THEN 0 ELSE @]

\* TorrentDetailWindow.set_mode: upd says whether the tab is the one already
\* shown; the tab's display function builds a new ScrollableText at the old
\* scroll position if upd, at 0 otherwise. A tab whose display function is
\* pass leaves the text widget, and its scroll position, as they were
SetMode(w, mode) ==
    LET upd == w.mode = mode
    IN  [w EXCEPT !.mode = mode,
                  !.scroll = IF HasDisplay(mode) /\ ~upd THEN 0 ELSE @]

\* TorrentDetailWindow.set_data: the new record is stored and the tab that is
\* shown is displayed again; seq is the request that brought the record
SetData(w, te, seq) == SetMode([w EXCEPT !.tid = te.id, !.ref = seq], w.mode)

\* get_torrent_details returns te and cb(te) is called: the continuation of
\* show_torrent_detail opens a detail window, the one of render_torrents
\* gives the window it closed over new data. A continuation that raises ends
\* the task and, through the nursery, the application
CbReturnWith(te) ==
    /\ app = "running"
    /\ cb_pc = "await"
    /\    /\ main_w' = IF CbContinuationRaises(te) THEN main_w
                       ELSE IF cb_item.kind = "show"
                       THEN [win |-> cb_item.seq, tid |-> te.id, ref |-> 0,
                             mode |-> "O", scroll |-> 0]
                       ELSE IF RefreshTarget(cb_item) = main_w.win
                       THEN SetData(main_w, te, cb_item.seq)
                       ELSE main_w
          /\ detail_shown' = IF cb_item.kind = "show" /\ ~CbContinuationRaises(te)
                             THEN TRUE ELSE detail_shown
          /\ app' = IF CbContinuationRaises(te) THEN "crashed" ELSE app
          /\ fault' = IF CbContinuationRaises(te) THEN "continuation" ELSE fault
          /\ cb_pc' = IF CbContinuationRaises(te) THEN "dead" ELSE "recv"
    /\ cb_log' = Append(cb_log, cb_item.seq)
    /\ cb_item' = NoItem
    /\ UNCHANGED <<rpcv, q_log, walker, topv, bars, stale, clocks, pollv, cb_queue, last,
                   nsub>>

CbReturn == \E te \in DetailAnswers(cb_item.tid) : CbReturnWith(te)

\* the producer raises in rv = await co: get_torrents raises (RPCError, a
\* transport error) or returns no torrent, so that rv[0] raises IndexError.
\* Nothing catches it: the task ends with cb not called, and the nursery
\* cancels the rest
CbProducerRaises ==
    /\ app = "running"
    /\ cb_pc = "await"
    /\ app' = "crashed"
    /\ fault' = "producer"
    /\ cb_pc' = "dead"
    /\ UNCHANGED <<rpcv, q_log, walker, mainv, topv, bars, stale, clocks, pollv, cb_queue,
                   cb_item, last, nsub, cb_log>>

(* ---------------------- ConsoleToplevel.keypress ----------------------- *)

\* lines 327-330: five seconds after the first q the count starts again
QExpired == q_since # NoTime /\ q_since > QuitWindow
QCount0 == IF QExpired THEN 0 ELSE q_count
QSince0 == IF QExpired THEN NoTime ELSE q_since

\* the widget super().keypress hands the key to
Target ==
    IF popup_open THEN "popup"
    ELSE IF fr_focus = "header" THEN "header"
    ELSE IF detail_shown THEN "detail"
    ELSE "list"

\* lines 360-362: 'down' in the header moves into the list;
\* next(self.main.data.positions()) raises StopIteration on an empty list.
\* In the list, the ListBox moves the focus to the next position, if any
KeyDown ==
    /\ app = "running"
    /\ q_count' = QCount0
    /\ q_since' = QSince0
    /\ fr_focus' = IF Target = "header" THEN "body" ELSE fr_focus
    /\ focus' = IF Target = "header" /\ order # <<>> THEN order[1]
                ELSE IF Target = "list" /\ NextPosition(focus) # None
                     THEN NextPosition(focus)
                ELSE focus
    /\ app' = IF Target = "header" /\ order = <<>> THEN "crashed" ELSE app
    /\ fault' = IF Target = "header" /\ order = <<>> THEN "keypress" ELSE fault
    /\ last' = Call("down", Target = "header" /\ order = <<>>)
    /\ UNCHANGED <<rpcv, q_log, entries, order, sorts, mainv, popup_open, bars, stale,
                   clocks, pollv, bridge, nsub, cb_log>>

\* self.main.view.focus_position (line 353) raises IndexError when the walker
\* has no focus widget
UpRaises == Target \in {"list", "detail"} /\ ~IsIn(focus, order)

\* lines 352-359: in the list, the ListBox moves the focus to the previous
\* position; at the top the key comes back and the frame's focus goes to the
\* header. Over a detail window the key comes back too
KeyUp ==
    /\ app = "running"
    /\ Target = "detail" => main_w.scroll = 0
    /\ q_count' = QCount0
    /\ q_since' = QSince0
    /\ focus' = IF Target = "list" /\ PrevPosition(focus) # None
                THEN PrevPosition(focus) ELSE focus
    /\ fr_focus' = IF Target \in {"list", "detail"} /\ ~UpRaises
                      /\ PrevPosition(focus) = None
                   THEN "header" ELSE fr_focus
    /\ app' = IF UpRaises THEN "crashed" ELSE app
    /\ fault' = IF UpRaises THEN "keypress" ELSE fault
    /\ last' = Call("up", UpRaises)
    /\ UNCHANGED <<rpcv, q_log, entries, order, sorts, mainv, popup_open, bars, stale,
                   clocks, pollv, bridge, nsub, cb_log>>

\* 'esc': a popup closes; a detail window closes (ConsoleMain.keypress);
\* from the list the frame's focus goes to the header and jump_if_unfocused
\* puts the list cursor on the first row
KeyEsc ==
    /\ app = "running"
    /\ q_count' = QCount0
    /\ q_since' = QSince0
    /\ popup_open' = FALSE
    /\ main_w' = IF Target = "detail" THEN View ELSE main_w
    /\ detail_shown' = IF Target = "detail" THEN FALSE ELSE detail_shown
    /\ fr_focus' = IF Target = "list" THEN "header" ELSE fr_focus
    /\ focus' = IF Target = "list" /\ Cardinality(DOMAIN entries) > 0
                THEN order[1] ELSE focus
    /\ last' = Call("esc", FALSE)
    /\ UNCHANGED <<rpcv, q_log, entries, order, sorts, bars, stale, clocks, pollv, bridge,
                   app, nsub, cb_log, fault>>

\* the work item show_torrent_detail submits for the focused torrent
ShowItem == [kind |-> "show", tid |-> entries[focus].id, win |-> 0,
             seq |-> nsub + 1]

\* 'enter' on a row of the list: TorrentEntry.keypress calls
\* show_torrent_detail, which submits the fetch and returns
KeyEnter ==
    /\ app = "running"
    /\ (Target = "list" /\ IsIn(focus, order)) => nsub < MaxSubmit
    /\ q_count' = QCount0
    /\ q_since' = QSince0
    /\ \E sub \in {IF Target = "list" /\ IsIn(focus, order)
                    THEN CallAsyncFunction(cb_queue, ShowItem)
                    ELSE [queue |-> cb_queue, raised |-> FALSE]} :
          /\ cb_queue' = sub.queue
          /\ nsub' = IF Len(sub.queue) > Len(cb_queue) THEN nsub + 1 ELSE nsub
          /\ app' = IF sub.raised THEN "crashed" ELSE app
          /\ fault' = IF sub.raised THEN "submit" ELSE fault
          /\ last' = Call("enter", sub.raised)
    /\ UNCHANGED <<rpcv, q_log, walker, mainv, fr_focus, popup_open, bars, stale, clocks,
                   pollv, cb_pc, cb_item, cb_log>>

\* history: at most MaxQ presses of 'q' are followed, and the ages of the
\* four before the one being handled are kept
MaxQ == 6
LastFour(s) == IF Len(s) > 4 THEN SubSeq(s, Len(s) - 3, Len(s)) ELSE s

\* 'q': the fifth q within five seconds leaves the main loop whatever the
\* sub-widgets do; otherwise a popup swallows the key, a detail window is
\* closed by it, and from the header or the list it leaves the main loop
QuitsNow == QCount0 + 1 >= QuitPresses \/ Target \in {"header", "list"}
KeyQ ==
    /\ app = "running"
    /\ q_log.n < MaxQ
    /\ q_log' = [n |-> q_log.n + 1, ages |-> LastFour(Append(q_log.ages, 0))]
    /\ q_count' = QCount0 + 1
    /\ q_since' = IF QSince0 = NoTime THEN 0 ELSE QSince0
    /\ app' = IF QuitsNow THEN "exited" ELSE app
    /\ main_w' = IF ~QuitsNow /\ Target = "detail" THEN View ELSE main_w
    /\ detail_shown' = IF ~QuitsNow /\ Target = "detail" THEN FALSE
                       ELSE detail_shown
    /\ last' = Call("q", FALSE)
    /\ UNCHANGED <<rpcv, walker, fr_focus, popup_open, bars, stale, clocks, pollv,
                   bridge, nsub, cb_log, fault>>

\* a round of update_data lands (lines 432-437) with whatever it fetched
PollLands ==
    /\ \E r \in PollLists, ses \in Sessions, stats \in Stats : Land(r, ses, stats)
    /\ UNCHANGED pollv

(* ------------------------- SortControlWindow --------------------------- *)

\* a mutant of KeyS: showing the popup puts the list cursor on the first row
KeySJumps ==
    /\ app = "running"
    /\ Target # "popup"
    /\ q_count' = QCount0
    /\ q_since' = QSince0
    /\ popup_open' = TRUE
    /\ focus' = IF order # <<>> THEN order[1] ELSE focus
    /\ last' = Call("s", FALSE)
    /\ UNCHANGED <<rpcv, q_log, entries, order, sorts, mainv, fr_focus, bars, stale, clocks,
                   pollv, bridge, app, nsub, cb_log, fault>>

\* 's' outside a popup: no widget takes the key and ConsoleToplevel.keypress
\* shows the sort popup (in the popup 's' is the trigger of 'Seeds')
KeyS ==
    /\ app = "running"
    /\ Target # "popup"
    /\ q_count' = QCount0
    /\ q_since' = QSince0
    /\ popup_open' = TRUE
    /\ last' = Call("s", FALSE)
    /\ UNCHANGED <<rpcv, q_log, walker, mainv, fr_focus, bars, stale, clocks, pollv, bridge,
                   app, nsub, cb_log, fault>>

\* a callback of the sort popup: ConsoleMain.set_sort(key, rev), which is
\* data.set_sort and jump_if_unfocused, then close_popup. A set_sort that
\* raises leaves the popup open and ends the application
LastTwo(s) == IF Len(s) > 2 THEN SubSeq(s, Len(s) - 1, Len(s)) ELSE s

PopupSort(key, rev) ==
    \E res \in {SetSort(key, rev)} :
       /\ app = "running"
       /\ Target = "popup"
       /\ q_count' = QCount0
       /\ q_since' = QSince0
       /\ sorts' = res.sorts
       /\ order' = res.order
       /\ focus' = IF res.raised THEN focus
                   ELSE JumpIfUnfocused(entries, res.order, focus)
       /\ popup_open' = res.raised
       /\ app' = IF res.raised THEN "crashed" ELSE app
       /\ fault' = IF res.raised THEN "keypress" ELSE fault
       /\ last' = [NoteArg("set_sort", res.raised, Evicts, <<key, rev>>)
                      EXCEPT !.tog = IF key = Omitted /\ ~res.raised
                                     THEN LastTwo(Append(last.tog, order))
                                     ELSE <<>>]
       /\ UNCHANGED <<rpcv, q_log, entries, mainv, fr_focus, bars, stale, clocks, pollv,
                      bridge, nsub, cb_log>>

\* the trigger key of one of the sort orders: getSortLambda(k)
KeyPick == \E k \in SortKeys : PopupSort(Given(k), Omitted)

\* 'v', the trigger of Reverse: set_sort(None, not sort_reversed)
KeyReverse == PopupSort(Omitted, Given(~sort_reversed))

\* the console with its sort popup, without the detail view
SortNext ==
    \/ PollLands
    \/ KeyDown
    \/ KeyUp
    \/ KeyEsc
    \/ KeyS
    \/ KeyPick
    \/ KeyReverse

SpecSort == Init /\ [][SortNext]_vars

\* the keys and the clock: 's' puts up the sort popup, which takes every
\* key, and time passes between the keys
QuitNext ==
    \/ KeyS
    \/ KeyEsc
    \/ KeyDown
    \/ KeyQ
    \/ Tick

SpecQuit == Init /\ [][QuitNext]_vars

(* ------------- the console: the widgets and the bridge ----------------- *)

Next ==
    \/ PollLands
    \/ KeyDown
    \/ KeyUp
    \/ KeyEsc
    \/ KeyEnter
    \/ KeyQ
    \/ CbRecv
    \/ CbReturn
    \/ CbProducerRaises

Spec == Init /\ [][Next]_vars

(* ------------------ TorrentDetailWindow: tabs and scroll --------------- *)

\* the largest scroll position of the info pane (max_scroll_pos): the text of
\* a tab is MaxScroll rows longer than the pane
MaxScroll == 2

\* TorrentDetailWindow.keypress, lines 179-187: the letter of tab t, which
\* the info pane hands back, selects the tab
KeyTab(t) ==
    /\ app = "running"
    /\ Target = "detail"
    /\ q_count' = QCount0
    /\ q_since' = QSince0
    /\ main_w' = SetMode(main_w, t)
    /\ last' = NoteArg("tab", FALSE, "", <<t>>)
    /\ UNCHANGED <<rpcv, q_log, walker, detail_shown, fr_focus, popup_open, bars,
                   stale, clocks, pollv, bridge, app, nsub, cb_log, fault>>

\* ScrollableText.keypress: 'down', 'up', 'page down', 'page up', 'home' or
\* 'end' moves the scroll position of a text longer than the pane to another
\* position between 0 and max_scroll_pos, and the key is consumed
KeyScroll(new) ==
    /\ app = "running"
    /\ Target = "detail"
    /\ new # main_w.scroll
    /\ q_count' = QCount0
    /\ q_since' = QSince0
    /\ main_w' = [main_w EXCEPT !.scroll = new]
    /\ last' = NoteArg("scroll", FALSE, "", <<new>>)
    /\ UNCHANGED <<rpcv, q_log, walker, detail_shown, fr_focus, popup_open, bars,
                   stale, clocks, pollv, bridge, app, nsub, cb_log, fault>>

\* a detail window over a daemon with one torrent, whose details are
\* complete: polls land, the window is opened, refreshed and closed, its
\* tabs are chosen and its text is scrolled
DetailLands ==
    /\ \E r \in StaleLists, ses \in StaleSessions, stats \in Stats :
          Land(r, ses, stats)
    /\ UNCHANGED pollv
DetailNext ==
    \/ DetailLands
    \/ KeyDown
    \/ KeyEnter
    \/ KeyEsc
    \/ CbRecv
    \/ CbReturnWith([id |-> cb_item.tid, files |-> <<>>])
    \/ \E t \in Tabs : KeyTab(t)
    \/ \E new \in 0..MaxScroll : KeyScroll(new)

SpecDetail == Init /\ [][DetailNext]_vars

(* ----------------- TransmissionConnection.send_request ----------------- *)

notrpc == <<walker, mainv, topv, bars, stale, clocks, pollv, bridge, app, hist,
            q_log>>

\* get_torrents, get_session or get_session_stats is called by task c:
\* send_request runs to its first await, the post
RpcCall(c, method) ==
    /\ rpc[c].pc = "idle"
    /\ rpc' = [rpc EXCEPT ![c] = [pc |-> "post", method |-> method,
                                  hdr |-> Header, posts |-> 1,
                                  r |-> NoResponse, out |-> NoOutcome]]
    /\ UNCHANGED <<sess_id, notrpc>>

\* the post of task c is answered with r: lines 50-60, and the lines 40-48 of
\* the recursive call when the post is retried
RpcAnswer(c, r) ==
    /\ rpc[c].pc \in {"post", "retry"}
    /\ IF Retries(r, rpc[c].pc = "retry")
       THEN /\ sess_id' = r.sid
            /\ rpc' = [rpc EXCEPT ![c].pc = "retry", ![c].hdr = r.sid,
                                  ![c].posts = @ + 1, ![c].r = r]
       ELSE /\ sess_id' = sess_id
            /\ rpc' = [rpc EXCEPT ![c].pc = "idle", ![c].r = r,
                          ![c].out = IF RaiseForStatus(r) THEN BadStatus(r)
                                     ELSE IF RaiseForResult(r) THEN RPCError(r)
                                     ELSE Returned(r)]
    /\ UNCHANGED notrpc

RpcNext ==
    \/ \E c \in Callers, method \in Methods : RpcCall(c, method)
    \/ \E c \in Callers, r \in Responses : RpcAnswer(c, r)

SpecRpc == Init /\ [][RpcNext]_vars

(* ----------------------------- main: shutdown -------------------------- *)

\* main, line 470: the main loop has returned and nursery.cancel_scope.cancel()
\* is called; a task that raised has the nursery cancel the others as well
Cancelling == app # "running"

\* a mutant of CancelPoll: Cancelled is caught like the failure of a call
CancelPollSwallowed ==
    /\ Cancelling
    /\ upd_pc \in {"start", "get_torrents", "get_session", "get_session_stats",
                   "sleep"}
    /\ upd_pc' = IF InCall THEN "get_torrents" ELSE "cancelled"
    /\ since_it' = IF InCall THEN 0 ELSE since_it
    /\ UNCHANGED <<rpcv, q_log, walker, mainv, topv, bars, stale, since_update, upd_r,
                   upd_ses, bridge, app, hist>>

\* update_data is given Cancelled at the await it is suspended in (or before
\* its first step); Cancelled is no Exception, so line 430 does not catch it
CancelPoll ==
    /\ Cancelling
    /\ upd_pc \in {"start", "get_torrents", "get_session", "get_session_stats",
                   "sleep"}
    /\ upd_pc' = "cancelled"
    /\ UNCHANGED <<rpcv, q_log, walker, mainv, topv, bars, stale, clocks, upd_r, upd_ses,
                   bridge, app, hist>>

\* track_update_time is given Cancelled in trio.sleep(0.5)
CancelTrack ==
    /\ Cancelling
    /\ trk_pc = "run"
    /\ trk_pc' = "cancelled"
    /\ UNCHANGED <<rpcv, q_log, walker, mainv, topv, bars, ftr_time, rates_w, trk_left,
                   clocks, pollv, bridge, app, hist>>

\* handle_callbacks is given Cancelled in the receive of the channel or in
\* rv = await co
CancelDrain ==
    /\ Cancelling
    /\ cb_pc \in {"recv", "await"}
    /\ cb_pc' = "cancelled"
    /\ UNCHANGED <<rpcv, q_log, walker, mainv, topv, bars, stale, clocks, pollv, cb_queue,
                   cb_item, app, hist>>

\* the three tasks up to their first sleep (no time passes), the keys that
\* lead to the detail view and out of the main loop, and the cancellation,
\* against a daemon with one torrent. A cancelled task is scheduled: the
\* three cancellations are weakly fair
ExitNext ==
    \/ PollBegin
    \/ PollGetTorrentsOf(StaleLists)
    \/ PollGetSessionOf(StaleSessions)
    \/ PollGetStats
    \/ PollFail
    \/ TrackTick
    \/ KeyDown
    \/ KeyEnter
    \/ KeyQ
    \/ CbRecv
    \/ CbReturn
    \/ CancelPoll
    \/ CancelTrack
    \/ CancelDrain

SpecExit ==
    /\ Init
    /\ [][ExitNext]_vars
    /\ WF_vars(CancelPoll)
    /\ WF_vars(CancelTrack)
    /\ WF_vars(CancelDrain)

(* C1: in the polling loop, only the step that ends a round whose three     *)
(* calls all succeeded changes the records, the order, the focus, the       *)
(* header or the footer: a round in which a call fails changes none.        *)
C1_FailedRoundMergesNothing ==
    [][(upd_pc # "get_session_stats" \/ upd_pc' = "get_torrents")
         => UNCHANGED <<entries, order, focus, hdr, ftr>>]_vars

\* a round has just failed with a new list fetched, after a round that landed
C1_Witness ==
    /\ last.op = "round failed"
    /\ last.note = "new list"
    /\ hdr # ""
    /\ ftr.count = 2

(* C2: every attempt of the polling loop, after a success or after a        *)
(* failure, starts no sooner than the poll period after the start of the    *)
(* attempt before it.                                                       *)
C2_AttemptsOnePeriodApart ==
    [][(upd_pc' = "get_torrents" /\ upd_pc # "start")
         => since_it >= PollPeriod]_vars

(* C3: the continuations of the work items are invoked in the order the     *)
(* items were submitted: the n-th continuation invoked is that of the n-th  *)
(* item submitted.                                                          *)
C3_ContinuationsInSubmissionOrder ==
    \A i \in 1..Len(cb_log) : cb_log[i] = i

\* three continuations have been invoked
C3_Witness == Len(cb_log) = 3

(* C4: when the producer of a work item fails, the continuation of that     *)
(* item is invoked all the same and the drain task keeps running.           *)
C4_ProducerFailureDelivered ==
    fault = "producer" => (IsIn(cb_item.seq, cb_log) /\ cb_pc # "dead")

(* C5: a continuation that raises does not end the drain task, nor the      *)
(* other tasks.                                                             *)
C5_ContinuationFailureIsolated ==
    fault = "continuation" => (cb_pc # "dead" /\ app = "running")

(* C6: order has no duplicates and holds exactly the keys of entries.       *)
C6_OrderIsPermutation ==
    NoDup(order) /\ Range(order) = DOMAIN entries

\* set_entries has been given a list in which an id is repeated
C6_Witness ==
    last.op = "set_entries" /\ last.note = "repeated id" /\ order # <<>>

(* C7: focus is None or a member of order, and it is None only when order   *)
(* is empty.                                                                *)
C7_FocusInOrder ==
    /\ focus = None \/ IsIn(focus, order)
    /\ focus = None => order = <<>>

(* C8: after set_entries has returned, the focus is the previous focus if   *)
(* the new list has it, else the first of the new order, and None if the    *)
(* new list is empty.                                                       *)
C8_FocusAfterSetEntries ==
    (last.op = "set_entries" /\ ~last.raised) =>
        /\ last.focus0 \in DOMAIN entries => focus = last.focus0
        /\ (last.focus0 \notin DOMAIN entries /\ order # <<>>) => focus = order[1]
        /\ order = <<>> => focus = None

\* the previous focus was kept though it is not the first of the new order
C8_Witness ==
    /\ last.op = "set_entries"
    /\ ~last.raised
    /\ Len(order) = 2
    /\ last.focus0 = order[2]
    /\ focus = order[2]

(* C9: when render_torrents has returned and the frame's focus is not the   *)
(* body, the list focus is the first of the new order, also when the        *)
(* torrent focused before is still there; when the frame's focus is the     *)
(* body and the torrent focused before is still there, it keeps the focus.  *)
C9_RenderJumpsOnlyWhenUnfocused ==
    (last.op = "render_torrents" /\ ~last.raised) =>
        /\ (fr_focus # "body" /\ order # <<>>) => focus = order[1]
        /\ (fr_focus = "body" /\ last.focus0 \in DOMAIN entries)
              => focus = last.focus0

\* the focus was taken from a torrent that is still in the list
C9_Witness ==
    /\ last.op = "render_torrents"
    /\ ~last.raised
    /\ fr_focus # "body"
    /\ Len(order) = 2
    /\ last.focus0 = order[2]
    /\ focus = order[1]

\* order is sorted by the newer entry of a two-entry history, and rows that
\* are equal under it stand as the older entry puts them
SortedByHistory ==
    \A i, j \in 1..Len(order) :
        i < j =>
            /\ ~Before(entries, sorts[2][1], sorts[2][2], order[j], order[i])
            /\ KeyVal(entries[order[i]], sorts[2][1])
                 = KeyVal(entries[order[j]], sorts[2][1])
               => ~Before(entries, sorts[1][1], sorts[1][2], order[j], order[i])

(* C10: after a re-sort (set_sort or set_entries returning) with a history  *)
(* of two entries, order is sorted by the newer entry's key in its          *)
(* direction, and torrents equal under it are in the order the older entry  *)
(* gives them.                                                              *)
C10_NewestCriterionDominates ==
    (last.op \in {"set_sort", "set_entries"} /\ ~last.raised /\ Len(sorts) = 2)
        => SortedByHistory

\* a descending re-sort of two rows that are equal under the newer key and
\* differ under the older
C10_Witness ==
    /\ last.op = "set_sort"
    /\ ~last.raised
    /\ Len(sorts) = 2
    /\ sorts[2][2]
    /\ sorts[1][1] # sorts[2][1]
    /\ Len(order) = 2
    /\ KeyVal(entries[order[1]], sorts[2][1]) = KeyVal(entries[order[2]], sorts[2][1])
    /\ KeyVal(entries[order[1]], sorts[1][1]) # KeyVal(entries[order[2]], sorts[1][1])

(* C11: the sort history never holds more than 2 entries; a set_sort with   *)
(* both arguments given leaves the history as the entry that was newest     *)
(* followed by the pair just given, and when it returns the order is the    *)
(* one these two criteria produce.                                          *)
C11_HistoryIsLastTwo ==
    [][/\ Len(sorts') <= 2
       /\ (last'.op = "set_sort" /\ last'.arg[1] # Omitted /\ last'.arg[2] # Omitted)
            => /\ sorts' = <<sorts[Len(sorts)],
                             <<last'.arg[1][1], last'.arg[2][1]>> >>
               /\ ~last'.raised => SortedByHistory']_vars

\* a set_sort has evicted the older of two different entries, and the two
\* entries left have different keys
C11_Witness ==
    /\ last.op = "set_sort"
    /\ last.note = "evicted"
    /\ ~last.raised
    /\ Len(order) = 2
    /\ sorts[1][1] # sorts[2][1]

(* C12: a set_sort pushes the key given, or the key of the newest entry     *)
(* when the key is omitted, and the direction given, or that of the newest  *)
(* entry when it is omitted; the Reverse action of the popup (key omitted)  *)
(* pushes the current key with the opposite direction.                      *)
C12_OmittedArgumentsDefault ==
    [][last'.op = "set_sort" =>
         /\ sorts'[Len(sorts')][1]
              = IF last'.arg[1] = Omitted THEN sort_key ELSE last'.arg[1][1]
         /\ sorts'[Len(sorts')][2]
              = IF last'.arg[2] = Omitted THEN sort_reversed ELSE last'.arg[2][1]
         /\ (Target = "popup" /\ last'.arg[1] = Omitted)
              => sorts'[Len(sorts')] = <<sort_key, ~sort_reversed>>]_vars

\* a key chosen in the popup has kept the descending direction
C12_Witness ==
    /\ last.op = "set_sort"
    /\ last.arg[1] # Omitted
    /\ last.arg[2] = Omitted
    /\ Len(sorts) = 2
    /\ sorts[1][1] # sorts[2][1]
    /\ sorts[1][2]
    /\ sorts[2][2]

(* C13: a poll round whose list has a record without a field the reconcile  *)
(* needs (render_torrents raises) leaves records, order and focus as they   *)
(* were, and the application keeps running.                                 *)
C13_BadRecordDiscardsRound ==
    [][(last'.op = "render_torrents" /\ last'.raised)
         => (UNCHANGED <<entries, order, focus>> /\ app' = "running")]_vars

(* C14: set_entries rejects (raises on) a raw list in which two records     *)
(* have the same id.                                                        *)
C14_RepeatedIdRejected ==
    (last.op = "set_entries" /\ last.note = "repeated id") => last.raised

(* C15: a set_entries that follows a set_entries which returned, with a raw *)
(* list that makes the same records in the same key order, returns too and  *)
(* leaves order and focus as the first left them.                           *)
C15_SetEntriesIdempotent ==
    [][(/\ last.op = "set_entries"
        /\ ~last.raised
        /\ last'.op = "set_entries"
        /\ entries' = entries
        /\ last'.arg = last.arg)
         => (~last'.raised /\ order' = order /\ focus' = focus)]_vars

\* the same two-row list has been set twice, the focus on its second row
C15_Witness ==
    /\ last.op = "set_entries"
    /\ last.note = "same list again"
    /\ Len(order) = 2
    /\ focus = order[2]

(* C16 (as the spec has it): the rates widget shows the delay message       *)
(* exactly when the sampled time since the last successful poll is over     *)
(* 5 s; at exactly 5 s it still shows the rates.                            *)
C16_StaleOnlyPastThreshold ==
    rates_w = "delay_msg" <=> ftr_time > StaleThreshold

(* C16: the rates widget shows the delay message exactly when the sampled   *)
(* time since the last successful poll is 5 s or more, and the rates below  *)
(* that: rates at 4.5 s, delay message at exactly 5 s and at 5.5 s.         *)
C16_StaleFromThreshold ==
    rates_w = "delay_msg" <=> ftr_time >= StaleThreshold

\* a tick has sampled exactly 5 s and the delay message is shown
C16_Witness ==
    /\ ftr_time = StaleThreshold
    /\ rates_w = "delay_msg"
    /\ hdr # ""

(* C17: the time since the last update starts again from zero in the step   *)
(* that ends a round whose three calls succeeded, and in no other step; a   *)
(* failed round leaves it as it is; a staleness tick reports it.            *)
C17_OnlySuccessResetsClock ==
    [][/\ since_update' < since_update
            => (upd_pc = "get_session_stats" /\ upd_pc' = "sleep")
       /\ (upd_pc = "get_session_stats" /\ upd_pc' = "sleep") => since_update' = 0
       /\ (upd_pc # "get_session_stats" \/ upd_pc' = "get_torrents")
            => since_update' >= since_update
       /\ ftr_time' # ftr_time => ftr_time' = since_update]_vars

\* after a successful round, a round has failed more than a period later and
\* the tick reports the time since the successful one
C17_Witness ==
    /\ last.op = "round failed"
    /\ hdr # ""
    /\ since_update > PollPeriod
    /\ ftr_time = since_update

(* C18: while update_data is suspended in a remote call, the staleness      *)
(* ticks go on: either the call ends or the delay message comes to be       *)
(* shown.                                                                   *)
C18_TicksWhilePollHangs ==
    InCall ~> (rates_w = "delay_msg" \/ upd_pc = "sleep")

\* a call has been pending for a whole period, the ticks have counted past
\* the threshold and the delay message is shown
C18_Witness ==
    /\ upd_pc = "get_session"
    /\ since_it >= PollPeriod
    /\ ftr_time > StaleThreshold
    /\ rates_w = "delay_msg"

(* C19: a render_torrents that returns while a detail window is open puts   *)
(* exactly one work item on the bridge, a fetch for the torrent of that     *)
(* window, and does not wait for it; with no detail window open it puts     *)
(* none. (A failed round is PollFail, which leaves the bridge alone.)       *)
C19_OneRefreshPerLanding ==
    [][(last'.op = "render_torrents" /\ ~last'.raised
          /\ cb_pc' = cb_pc /\ cb_item' = cb_item)
         => IF detail_shown
            THEN /\ Len(cb_queue') = Len(cb_queue) + 1
                 /\ SubSeq(cb_queue', 1, Len(cb_queue)) = cb_queue
                 /\ cb_queue'[Len(cb_queue')].kind = "refresh"
                 /\ cb_queue'[Len(cb_queue')].tid = main_w.tid
                 /\ nsub' = nsub + 1
                 /\ cb_log' = cb_log
            ELSE cb_queue' = cb_queue /\ nsub' = nsub]_vars

\* a poll has landed over a detail window whose torrent is not the one under
\* the list cursor, and the fetch queued is for the window's torrent
C19_Witness ==
    /\ last.op = "render_torrents"
    /\ detail_shown
    /\ cb_queue # <<>>
    /\ cb_queue[Len(cb_queue)].kind = "refresh"
    /\ cb_queue[Len(cb_queue)].tid = main_w.tid
    /\ focus # main_w.tid

(* C20: the drain task starts the producer of an item only when no item is  *)
(* in work and the continuations of all items submitted before it have      *)
(* been invoked.                                                            *)
C20_OneProducerInFlight ==
    [][(cb_item' # cb_item /\ cb_item' # NoItem)
         => (cb_item = NoItem /\ Len(cb_log) = cb_item'.seq - 1)]_vars

\* the producer of the second item is in flight, the continuation of the
\* first has been invoked and a third item waits in the channel
C20_Witness ==
    /\ cb_pc = "await"
    /\ cb_item.seq = 2
    /\ cb_log = <<1>>
    /\ cb_queue # <<>>

TasksEnded ==
    /\ upd_pc \in {"cancelled", "dead"}
    /\ trk_pc = "cancelled"
    /\ cb_pc \in {"cancelled", "dead"}

(* C21: once the main loop has been left, update_data, track_update_time    *)
(* and handle_callbacks all come to an end, wherever each was suspended.    *)
C21_ExitCancelsTasks ==
    (app = "exited") ~> TasksEnded

\* the main loop was left while update_data waited for the answer of its
\* second or third call and the channel was empty, and the three tasks ended
C21_Witness ==
    /\ app = "exited"
    /\ TasksEnded
    /\ upd_r # <<>>
    /\ cb_queue = <<>>
    /\ cb_item = NoItem

(* C22 (as the spec has it): records, order and focus are changed by the    *)
(* reconcile of a successful poll and by nothing else.                      *)
C22_OnlyReconcileChangesTriple ==
    [][<<entries, order, focus>>' # <<entries, order, focus>>
         => last'.op \in {"render_torrents", "set_entries"}]_vars

(* C22: records are changed only by a reconcile (set_entries); order is     *)
(* changed only by a reconcile or by set_sort, which re-arranges the same   *)
(* ids in place; focus is changed only by a reconcile, by set_focus, by     *)
(* the jump that follows a set_sort of the popup, and by the keys up, down  *)
(* and esc.                                                                 *)
C22_WhoChangesTriple ==
    [][/\ entries' # entries => last'.op \in {"render_torrents", "set_entries"}
       /\ order' # order
            => \/ last'.op \in {"render_torrents", "set_entries"}
               \/ last'.op = "set_sort" /\ Range(order') = Range(order)
                                        /\ Len(order') = Len(order)
       /\ focus' # focus
            => last'.op \in {"render_torrents", "set_entries", "set_focus",
                             "set_sort", "up", "down", "esc"}]_vars

\* 'down' has moved the list cursor from one row to another
C22_Witness ==
    /\ last.op = "down"
    /\ last.focus0 # None
    /\ focus # last.focus0

(* C23: in the polling loop a round that fails does not end the task, how   *)
(* many rounds have failed before it, and the round whose third call        *)
(* returns is reconciled: its list becomes the records, the footer counts   *)
(* it and the time of the last update is taken.                             *)
C23_PollSurvivesFailures ==
    [][/\ upd_pc' # "dead"
       /\ app' = "running"
       /\ InCall /\ upd_pc' = "get_torrents" => UNCHANGED <<entries, order>>
       /\ (upd_pc = "get_session_stats"
             /\ upd_pc' \notin {"get_session_stats", "get_torrents"})
            => /\ upd_pc' = "sleep"
               /\ entries' = MakeEntries(upd_r)
               /\ Range(order') = DOMAIN entries'
               /\ ftr'.count = Len(upd_r)
               /\ since_update' = 0]_vars

\* a round has been reconciled after MaxFails rounds failed in a row, and has
\* changed the list shown
C23_Witness ==
    /\ last.op = "render_torrents"
    /\ last.arg = <<MaxFails>>
    /\ upd_pc = "sleep"
    /\ Len(order) = 2
    /\ last.focus0 = None

(* C24: the view-model the other tasks and the key handlers find is whole:  *)
(* order holds the ids of records, each once, in the order of the current   *)
(* sort criterion, and the focus is an id of records, or None when there    *)
(* are none. The records of one round are not seen with the order or the    *)
(* focus of another.                                                        *)
C24_NoTornView ==
    app = "running" =>
        /\ Range(order) = DOMAIN entries
        /\ NoDup(order)
        /\ \A i, j \in 1..Len(order) :
              i < j => ~Before(entries, sort_key, sort_reversed,
                               order[j], order[i])
        /\ IF order = <<>> THEN focus = None ELSE focus \in DOMAIN entries

\* a round has replaced the one torrent shown by another: records, order and
\* focus have all changed in the one step
C24_Witness ==
    /\ app = "running"
    /\ last.op = "render_torrents"
    /\ last.focus0 # None
    /\ last.focus0 \notin DOMAIN entries
    /\ order = <<focus>>

(* C25: only set_sort changes the sort history: a round of the polling      *)
(* loop, a key that moves the focus, the opening and the closing of the     *)
(* popup leave it as it is, and a round that is reconciled puts the list    *)
(* in the order of the newest criterion of that history.                    *)
C25_OnlySetSortChangesHistory ==
    [][/\ sorts' # sorts => last'.op = "set_sort"
       /\ (last'.op = "render_torrents" /\ ~last'.raised)
            => \A i, j \in 1..Len(order') :
                  i < j => ~Before(entries', sorts[Len(sorts)][1],
                                   sorts[Len(sorts)][2], order'[j], order'[i])
      ]_vars

\* a round has been reconciled under a history of two criteria chosen in the
\* popup, the newer one descending by size
C25_Witness ==
    /\ last.op = "render_torrents"
    /\ ~last.raised
    /\ Len(sorts) = 2
    /\ sorts[2] = <<"sizeWhenDone", TRUE>>
    /\ sorts[1][1] = "sizeWhenDone"
    /\ Len(order) = 2

(* C26: with the records 1 (name b, size 5), 2 (name a, size 5) and         *)
(* 3 (name a, size 3), a sort history of size ascending then name           *)
(* ascending, as set_sort by size and then set_sort by name leave it,       *)
(* gives the order 3, 2, 1.                                                 *)
C26_SizeThenNameExample ==
    (/\ entries = MakeEntries(ExampleList)
     /\ sorts = <<<<"sizeWhenDone", FALSE>>, <<"name", FALSE>>>>)
        => order = <<3, 2, 1>>

\* the three records have been set and set_sort by name ascending has just
\* returned, after set_sort by size ascending
C26_Witness ==
    /\ entries = MakeEntries(ExampleList)
    /\ last.op = "set_sort"
    /\ ~last.raised
    /\ last.arg = <<Given("name"), Given(FALSE)>>
    /\ sorts = <<<<"sizeWhenDone", FALSE>>, <<"name", FALSE>>>>
    /\ order = <<3, 2, 1>>

(* C27: call_async_function does not raise, and the step that submits a     *)
(* work item puts it at the back of the queue and returns, how many items   *)
(* are queued and whether or not handle_callbacks is waiting for a          *)
(* producer.                                                                *)
C27_SubmitNeverBlocks ==
    [][/\ fault' # "submit"
       /\ nsub' # nsub
            => /\ nsub' = nsub + 1
               /\ Len(cb_queue') = Len(cb_queue) + 1
               /\ SubSeq(cb_queue', 1, Len(cb_queue)) = cb_queue
               /\ cb_queue'[Len(cb_queue')].seq = nsub'
               /\ cb_pc' = cb_pc
               /\ cb_item' = cb_item
               /\ app' = app]_vars

\* an item has just been submitted behind a queued one, with handle_callbacks
\* in the producer of a third
C27_Witness ==
    /\ last.op = "enter"
    /\ ~last.raised
    /\ cb_pc = "await"
    /\ Len(cb_queue) = 2
    /\ cb_queue[2].seq = nsub
    /\ app = "running"

(* C28: a call of get_torrents, get_session or get_session_stats whose      *)
(* answer is a body with a result other than 'success' ends in an RPCError  *)
(* that has the result string in its message and the body as return_dict,   *)
(* and hands no data to the caller.                                         *)
C28_FailureResultRaises ==
    \A c \in Callers :
        (/\ rpc[c].pc = "idle"
         /\ rpc[c].r.status = 200
         /\ rpc[c].r.result # "success")
            => /\ rpc[c].out.kind = "RPCError"
               /\ rpc[c].out.msg = "Error: " \o rpc[c].r.result
               /\ rpc[c].out.return_dict = rpc[c].r
               /\ rpc[c].out.data = NoData

\* get_torrents has ended in an RPCError after a retried post
C28_Witness ==
    \E c \in Callers :
        /\ rpc[c].pc = "idle"
        /\ rpc[c].method = "torrent-get"
        /\ rpc[c].posts = 2
        /\ rpc[c].out.kind = "RPCError"
        /\ rpc[c].out.return_dict.result = "method name not recognized"

(* C30: a call of send_request posts once or twice. A 409 to its first      *)
(* post stores the session id of that answer and posts again with that id   *)
(* in the header; a 409 to the second post ends the call with an            *)
(* exception and stores nothing; and every post carries the session id      *)
(* stored at the time it is made.                                           *)
C30_RetryOnceOn409 ==
    [][\A c \in Callers :
         /\ rpc'[c].posts <= 2
         /\ (rpc'[c].posts # rpc[c].posts /\ rpc'[c].pc # "idle")
              => rpc'[c].hdr = sess_id'
         /\ (rpc[c].pc = "post" /\ rpc'[c] # rpc[c] /\ rpc'[c].r.status = 409)
              => /\ sess_id' = rpc'[c].r.sid
                 /\ rpc'[c].pc = "retry"
                 /\ rpc'[c].posts = 2
                 /\ rpc'[c].hdr = rpc'[c].r.sid
         /\ (rpc[c].pc = "retry" /\ rpc'[c] # rpc[c] /\ rpc'[c].r.status = 409)
              => /\ sess_id' = sess_id
                 /\ rpc'[c].pc = "idle"
                 /\ rpc'[c].posts = 2
                 /\ rpc'[c].out.kind = "BadStatus"
      ]_vars

\* a call has failed on the 409 that answered its retry, the id of that
\* answer is not the one stored, and the other task has a post out with the
\* stored id
C30_Witness ==
    \E c, d \in Callers :
        /\ rpc[c].pc = "idle"
        /\ rpc[c].posts = 2
        /\ rpc[c].r.status = 409
        /\ rpc[c].out.kind = "BadStatus"
        /\ sess_id # rpc[c].r.sid
        /\ rpc[d].pc = "post"
        /\ rpc[d].hdr = sess_id
        /\ sess_id # NoSid

(* C29: a press of 'q' that is the fifth within five seconds, the four      *)
(* before it no more than five seconds old, leaves the main loop, whichever *)
(* widget has the keys and whatever was pressed in between.                 *)
C29_FifthQuickQExits ==
    [][(/\ q_log'.n = q_log.n + 1
        /\ Len(q_log.ages) = 4
        /\ q_log.ages[1] <= QuitWindow)
         => app' = "exited"]_vars

(* C31: no work item is dropped: when handle_callbacks has ended, every     *)
(* item submitted has had its continuation invoked, but for the items       *)
(* behind one whose producer failed.                                        *)
C31_NoItemDropped ==
    cb_pc = "dead"
        => \A n \in 1..nsub :
              \/ IsIn(n, cb_log)
              \/ fault = "producer" /\ n > cb_item.seq

(* C32: with a sort history whose keys the records have, set_entries given  *)
(* again the list it was given last, after whatever calls of set_sort,      *)
(* leaves order as it was.                                                  *)
C32_OrderFromListAndHistory ==
    [][(/\ last'.op = "set_entries"
        /\ ~last'.raised
        /\ last'.raw = last.raw
        /\ entries' = entries
        /\ \A i \in 1..Len(sorts) : sorts[i][1] # "seeders")
         => order' = order]_vars

(* C33: 'down' pressed with the frame's focus on the header and no torrent  *)
(* in the list raises nothing, leaves the application running and leaves    *)
(* the frame's focus on the header.                                         *)
C33_DownOnEmptyListIsSafe ==
    [][(/\ Target = "header"
        /\ order = <<>>
        /\ last'.op = "down"
        /\ last' # last)
         => /\ ~last'.raised
            /\ app' = "running"
            /\ fr_focus' = "header"]_vars

(* C34: the continuation of a refresh submitted by render_torrents neither  *)
(* opens nor closes a detail view and does not change which window is       *)
(* shown or for which torrent; it gives new data to the window shown only   *)
(* when that is the window that was shown when the refresh was submitted.   *)
C34_RefreshOnlyItsWindow ==
    [][(/\ cb_pc = "await"
        /\ cb_item.kind = "refresh"
        /\ Len(cb_log') > Len(cb_log))
         => /\ detail_shown' = detail_shown
            /\ main_w'.win = main_w.win
            /\ main_w'.tid = main_w.tid
            /\ cb_item.win # main_w.win => main_w' = main_w
            /\ main_w' # main_w => main_w'.ref = cb_item.seq]_vars

\* three continuations have run: two opened a detail window each, and the
\* third, a refresh submitted while the first window was shown, has left
\* the second window as it was
C34_Witness ==
    /\ app = "running"
    /\ cb_log = <<1, 2, 3>>
    /\ last.op = "render_torrents"
    /\ detail_shown
    /\ main_w.win = 2
    /\ main_w.ref = 0
    /\ Len(order) = 2

(* C35: after Reverse has been used twice, with no other sort and no poll   *)
(* in between, the list is in the order it was in before the first of the   *)
(* two, rows equal under the sort key included.                             *)
C35_TwoTogglesRestoreOrder ==
    (app = "running" /\ Len(last.tog) = 2) => order = last.tog[1]

\* Reverse has just been used a second time on two torrents of equal size,
\* sorted by size
C35_Witness ==
    /\ app = "running"
    /\ last.op = "set_sort"
    /\ Len(last.tog) = 2
    /\ sort_key = "sizeWhenDone"
    /\ Len(order) = 2
    /\ entries[order[1]].sizeWhenDone = entries[order[2]].sizeWhenDone
    /\ order = last.tog[1]

(* C36: the continuation of a poll-triggered refresh leaves the tab and the
   scroll position of the detail window as they were; while a window stays
   open its scroll position changes only by a scrolling key or by going to 0
   when a tab key selects a different tab. *)
C36_RefreshKeepsTabAndScroll ==
    [][/\ (cb_pc = "await" /\ cb_item.kind = "refresh" /\ cb_log' # cb_log)
            => /\ main_w'.mode = main_w.mode
               /\ main_w'.scroll = main_w.scroll
       /\ (main_w'.win = main_w.win /\ main_w'.scroll # main_w.scroll)
            => \/ last'.op = "scroll" /\ last'.arg = <<main_w'.scroll>>
               \/ /\ last'.op = "tab"
                  /\ main_w'.mode # main_w.mode
                  /\ main_w'.scroll = 0]_vars

\* a refresh has just given new data to a window that shows the Raw tab
\* scrolled to the end: no key was pressed since the poll that asked for it
C36_Witness ==
    /\ app = "running"
    /\ detail_shown
    /\ main_w.mode = "R"
    /\ main_w.scroll = MaxScroll
    /\ main_w.ref > main_w.win
    /\ cb_log # <<>>
    /\ cb_log[Len(cb_log)] = main_w.ref
    /\ last.op = "render_torrents"

(* C37: the sort history is never empty: it is the single entry (name,
   ascending) until the first set_sort and holds 1 or 2 entries after any
   sequence of set_sort calls, so that sort_key is one of the sort keys and
   sort_reversed a boolean in every reachable state. *)
C37_HistoryNeverEmpty ==
    /\ Len(sorts) \in {1, 2}
    /\ last.op = "init" => sorts = <<<<"name", FALSE>>>>
    /\ sort_key \in SortKeys
    /\ sort_reversed \in BOOLEAN

\* a set_sort on a full history has evicted its oldest entry, and the newest
\* entry is size, descending
C37_Witness ==
    /\ last.op = "set_sort"
    /\ last.note = "evicted"
    /\ Len(sorts) = 2
    /\ sort_key = "sizeWhenDone"
    /\ sort_reversed

====
